---- MODULE Spec2Model ----
(***************************************************************************)
(* pico-bf: a character-fed Brainfuck virtual machine (src/main.cpp).      *)
(*                                                                         *)
(* The state is brainfuck_vm_status plus the two I/O collaborators         *)
(* (putchar, getchar).  run_vm is recursive: a loop_end_op replays the     *)
(* recorded instructions of its body.  One step of the model is one        *)
(* run_vm dispatch (a live feed or one replayed instruction) or the end of *)
(* one replay pass; the saved locals `current` of the active loop_end_op   *)
(* invocations are kept in `frames`.                                       *)
(***************************************************************************)
EXTENDS Integers, Sequences, FiniteSets, TLC

VARIABLES
    tape,                    \* status.tape : std::map<int, char>
    tape_ptr,                \* status.tape_ptr
    instruction,             \* status.instruction : std::vector<char>
    instruction_ptr_current, \* status.instruction_ptr_current
    instruction_loop_ptr,    \* status.instruction_loop_ptr : std::stack<int>
    jump_loop,               \* status.jump_loop
    out,                     \* bytes handed to putchar, in order
    inp,                     \* values returned by getchar to read_op, in order
    keys,                    \* the values the input collaborator can supply
    pc,                      \* "idle": no run_vm active; "replay": inside a loop_end_op; "undefined"
    frames,                  \* locals `current` of the active loop_end_op invocations
    ub,                      \* TRUE once top()/pop() was called on an empty stack
    lastfed,                 \* the character given to the last live run_vm call
    lastop,                  \* the brainfuck_op next_op returned for it
    skipw,                   \* the open skipped loop: its loop-start index and the state there
    rprog, rtape, rptr, rout, rip, \* the reference machine (standard semantics)
    line,                    \* run_bf: the characters of the line (or run) still to interpret
    session,                 \* which run_bf call is active: "interactive", "example", "peko"
    entered                  \* the last line getline returned to run_bf

status == <<tape, tape_ptr, instruction, instruction_ptr_current,
            instruction_loop_ptr, jump_loop>>
io     == <<out, inp, keys>>
ctl    == <<pc, frames, ub>>
ghost  == <<lastfed, lastop, skipw>>
ref    == <<rprog, rtape, rptr, rout, rip>>
sess   == <<line, session, entered>>
vars   == <<tape, tape_ptr, instruction, instruction_ptr_current,
            instruction_loop_ptr, jump_loop, out, inp, keys, pc, frames, ub,
            lastfed, lastop, skipw, rprog, rtape, rptr, rout, rip,
            line, session, entered>>

----------------------------------------------------------------------------
(* Bounds of the exploration *)

\* longest instruction history fed character by character without restriction
MaxLen == 4
\* the tape pointer is followed within -MaxPtr .. MaxPtr
MaxPtr == 3
\* number of putchar calls followed
MaxOut == 3
\* number of characters the input collaborator supplies
MaxIn == 2

----------------------------------------------------------------------------
(* Characters and cells *)

\* width of a tape cell: `char`, 8 bits
CellMod == 256

OpChars == {"+", "-", ">", "<", ".", ",", "[", "]"}
\* some characters bf_op_map has no entry for
InvalidChars == {" ", "x"}
Chars == OpChars \cup InvalidChars

\* values getchar hands to read_op when any character may be fed
InputVals == {0, 65, 255}

\* mutant: a cell of 7 bits
ToChar_7bit(v) == v % 128

\* mutant: a cell wider than a char, no wrap
ToChar_nowrap(v) == v

\* int -> char conversion of a stored value; a cell is read as its byte,
\* 0 .. 255 (char is unsigned on the Pico's ARM target, and putchar and the
\* comparisons with 0 see the same byte either way)
ToChar(v) == v % CellMod

\* mutant: '.' and ',' exchanged, as in the comments of lines 29-30
bf_op_map_swapped ==
    [c \in OpChars |->
        CASE c = "+" -> "increment_value_op"
          [] c = "-" -> "decrement_value_op"
          [] c = ">" -> "increment_ptr_op"
          [] c = "<" -> "decrement_ptr_op"
          [] c = "." -> "read_op"
          [] c = "," -> "print_op"
          [] c = "[" -> "loop_start_op"
          [] c = "]" -> "loop_end_op"]

\* bf_op_map
bf_op_map ==
    [c \in OpChars |->
        CASE c = "+" -> "increment_value_op"
          [] c = "-" -> "decrement_value_op"
          [] c = ">" -> "increment_ptr_op"
          [] c = "<" -> "decrement_ptr_op"
          [] c = "." -> "print_op"
          [] c = "," -> "read_op"
          [] c = "[" -> "loop_start_op"
          [] c = "]" -> "loop_end_op"]

\* the op next_op returns: bf_op_map.find, std::monostate when absent
next_op_result(char_op) ==
    IF char_op \in DOMAIN bf_op_map THEN bf_op_map[char_op] ELSE "monostate"

\* status.tape[p] as a value: a missing key reads as char() = 0
Cell(t, p) == IF p \in DOMAIN t THEN t[p] ELSE 0

\* std::map::operator[] inserts the key it is asked for
Touch(t, p) == IF p \in DOMAIN t THEN t ELSE (p :> 0) @@ t

\* status.tape[p] = v
Put(t, p, v) == (p :> v) @@ t

\* status.instruction[i], i counted from 0 as in the source
InsAt(i) == instruction[i + 1]

Top(s) == s[Len(s)]
Pop(s) == SubSeq(s, 1, Len(s) - 1)

None == [start |-> -2]


\* the index of the loop-end that bracket-matches the loop-start at index s
\* of ins (indices counted from 0), or -1 when ins does not contain it
RECURSIVE ScanFwd(_, _, _)
ScanFwd(ins, i, depth) ==
    IF i >= Len(ins) THEN -1
    ELSE IF ins[i + 1] = "[" THEN ScanFwd(ins, i + 1, depth + 1)
    ELSE IF ins[i + 1] = "]" THEN
        (IF depth = 0 THEN i ELSE ScanFwd(ins, i + 1, depth - 1))
    ELSE ScanFwd(ins, i + 1, depth)

MatchFwd(ins, s) == ScanFwd(ins, s + 1, 0)

\* the index of the loop-start that bracket-matches the loop-end at index e
RECURSIVE ScanBack(_, _, _)
ScanBack(ins, i, depth) ==
    IF i < 0 THEN -1
    ELSE IF ins[i + 1] = "]" THEN ScanBack(ins, i - 1, depth + 1)
    ELSE IF ins[i + 1] = "[" THEN
        (IF depth = 0 THEN i ELSE ScanBack(ins, i - 1, depth - 1))
    ELSE ScanBack(ins, i - 1, depth)

MatchBack(ins, e) == ScanBack(ins, e - 1, 0)

----------------------------------------------------------------------------------------------------------------------------------------
(* Undefined behaviour: std::stack::top() and pop() on an empty stack.     *)
(* top() then yields whatever the memory holds and pop() corrupts the      *)
(* container; the run is marked (ub, pc = "undefined") and not followed    *)
(* any further.                                                            *)

\* the values top() can yield while the loop_end_op at index `at` runs
TopChoices(at) ==
    IF instruction_loop_ptr # <<>> THEN {Top(instruction_loop_ptr)}
    ELSE -1 .. at

\* the stacks pop() can leave
PopChoices ==
    IF instruction_loop_ptr # <<>> THEN {Pop(instruction_loop_ptr)}
    ELSE {<<>>}

\* where control is after a stack operation
AfterStackOp(normal) ==
    IF instruction_loop_ptr # <<>> THEN normal ELSE "undefined"

----------------
(* run_vm *)

\* what the caller of run_vm does when the call returns: the replay loop
\* advances to the next instruction (line 214), the live caller goes on
Return(at, via) ==
    IF via
    THEN /\ instruction_ptr_current' = at + 1
         /\ UNCHANGED <<pc, frames>>
    ELSE /\ instruction_ptr_current' = at
         /\ pc' = "idle"
         /\ frames' = <<>>

\* the skipped loop that is open after the instruction at index `at` of ins
\* has been processed
SkipAfter(c, ins, at) ==
    IF skipw # None
    THEN (IF c = "]" /\ at = MatchFwd(ins, skipw.start) THEN None ELSE skipw)
    ELSE IF c = "[" /\ jump_loop = 0 /\ Cell(tape, tape_ptr) = 0
         THEN [start |-> at, tape |-> tape, ptr |-> tape_ptr, out |-> out,
               inp |-> inp, stack |-> instruction_loop_ptr]
         ELSE None

\* the body of the first while of loop_end_op up to the inner while
\* (lines 205-209), entered by the loop_end_op at index `cur`
StartPass(cur, fr) ==
    \E t \in TopChoices(cur) :
        /\ instruction_ptr_current' = t + 1
        /\ frames' = fr
        /\ pc' = AfterStackOp("replay")
        /\ ub' = (ub \/ instruction_loop_ptr = <<>>)
        /\ UNCHANGED <<tape, tape_ptr, instruction_loop_ptr, jump_loop, out, inp>>

\* the visitor's lambdas, for the instruction at index `at`; `via` as in run_vm

\* mutant: the increment is not suppressed while a loop is skipped
increment_value_op_unguarded(at, via) ==
    /\ tape' = Put(tape, tape_ptr, ToChar(Cell(tape, tape_ptr) + 1))
    /\ UNCHANGED <<tape_ptr, instruction_loop_ptr, jump_loop, out, inp, ub>>
    /\ Return(at, via)

increment_value_op(at, via) ==
    /\ tape' = IF jump_loop = 0
               THEN Put(tape, tape_ptr, ToChar(Cell(tape, tape_ptr) + 1))
               ELSE tape
    /\ UNCHANGED <<tape_ptr, instruction_loop_ptr, jump_loop, out, inp, ub>>
    /\ Return(at, via)

decrement_value_op(at, via) ==
    /\ tape' = IF jump_loop = 0
               THEN Put(tape, tape_ptr, ToChar(Cell(tape, tape_ptr) - 1))
               ELSE tape
    /\ UNCHANGED <<tape_ptr, instruction_loop_ptr, jump_loop, out, inp, ub>>
    /\ Return(at, via)

increment_ptr_op(at, via) ==
    /\ jump_loop = 0 => tape_ptr < MaxPtr
    /\ tape_ptr' = IF jump_loop = 0 THEN tape_ptr + 1 ELSE tape_ptr
    /\ UNCHANGED <<tape, instruction_loop_ptr, jump_loop, out, inp, ub>>
    /\ Return(at, via)

\* mutant: the pointer moves right, as in increment_ptr_op
decrement_ptr_op_right(at, via) ==
    /\ jump_loop = 0 => tape_ptr < MaxPtr
    /\ tape_ptr' = IF jump_loop = 0 THEN tape_ptr + 1 ELSE tape_ptr
    /\ UNCHANGED <<tape, instruction_loop_ptr, jump_loop, out, inp, ub>>
    /\ Return(at, via)

decrement_ptr_op(at, via) ==
    /\ jump_loop = 0 => tape_ptr > -MaxPtr
    /\ tape_ptr' = IF jump_loop = 0 THEN tape_ptr - 1 ELSE tape_ptr
    /\ UNCHANGED <<tape, instruction_loop_ptr, jump_loop, out, inp, ub>>
    /\ Return(at, via)

\* mutant: putchar(status.tape_ptr)
print_op_ptr(at, via) ==
    /\ jump_loop = 0 => Len(out) < MaxOut
    /\ out' = IF jump_loop = 0 THEN Append(out, tape_ptr) ELSE out
    /\ UNCHANGED <<tape, tape_ptr, instruction_loop_ptr, jump_loop, inp, ub>>
    /\ Return(at, via)

\* putchar(status.tape[status.tape_ptr])
print_op(at, via) ==
    /\ jump_loop = 0 => Len(out) < MaxOut
    /\ out' = IF jump_loop = 0 THEN Append(out, Cell(tape, tape_ptr)) ELSE out
    /\ tape' = IF jump_loop = 0 THEN Touch(tape, tape_ptr) ELSE tape
    /\ UNCHANGED <<tape_ptr, instruction_loop_ptr, jump_loop, inp, ub>>
    /\ Return(at, via)

\* mutant: the input is read and stored while a loop is skipped as well
read_op_unguarded(at, via) ==
    /\ Len(inp) < MaxIn
    /\ \E v \in keys :
          /\ inp' = Append(inp, v)
          /\ tape' = Put(tape, tape_ptr, ToChar(v))
    /\ UNCHANGED <<tape_ptr, instruction_loop_ptr, jump_loop, out, ub>>
    /\ Return(at, via)

\* status.tape[status.tape_ptr] = getchar()
read_op(at, via) ==
    /\ jump_loop = 0 => Len(inp) < MaxIn
    /\ \E v \in keys :
          /\ inp' = IF jump_loop = 0 THEN Append(inp, v) ELSE inp
          /\ tape' = IF jump_loop = 0 THEN Put(tape, tape_ptr, ToChar(v)) ELSE tape
    /\ UNCHANGED <<tape_ptr, instruction_loop_ptr, jump_loop, out, ub>>
    /\ Return(at, via)

\* mutant: Skip Depth as a flag, set rather than counted up
loop_start_op_flag(at, via) ==
    /\ tape' = Touch(tape, tape_ptr)
    /\ IF Cell(tape, tape_ptr) # 0 /\ jump_loop = 0
       THEN /\ instruction_loop_ptr' = Append(instruction_loop_ptr, at)
            /\ UNCHANGED jump_loop
       ELSE /\ jump_loop' = 1
            /\ UNCHANGED instruction_loop_ptr
    /\ UNCHANGED <<tape_ptr, out, inp, ub>>
    /\ Return(at, via)

loop_start_op(at, via) ==
    /\ tape' = Touch(tape, tape_ptr)
    /\ IF Cell(tape, tape_ptr) # 0 /\ jump_loop = 0
       THEN /\ instruction_loop_ptr' = Append(instruction_loop_ptr, at)
            /\ UNCHANGED jump_loop
       ELSE /\ jump_loop' = jump_loop + 1
            /\ UNCHANGED instruction_loop_ptr
    /\ UNCHANGED <<tape_ptr, out, inp, ub>>
    /\ Return(at, via)

\* loop_end_op up to the inner while; the replay itself is ReplayOp and PassEnd
loop_end_op(at, via) ==
    IF jump_loop # 0
    THEN /\ jump_loop' = jump_loop - 1
         /\ UNCHANGED <<tape, tape_ptr, instruction_loop_ptr, out, inp, ub>>
         /\ Return(at, via)
    ELSE IF Cell(tape, tape_ptr) # 0
    THEN StartPass(at, Append(frames, at))
    ELSE /\ tape' = Touch(tape, tape_ptr)
         /\ UNCHANGED <<tape_ptr, instruction_loop_ptr, jump_loop, out, inp, ub>>
         /\ Return(at, via)

monostate(at, via) ==
    /\ UNCHANGED <<tape, tape_ptr, instruction_loop_ptr, jump_loop, out, inp, ub>>
    /\ Return(at, via)

\* run_vm(status, c, via): the visitor applied to next_op's result, for the
\* instruction at index `at` of ins
run_vm(c, ins, at, via) ==
    LET op == next_op_result(c) IN
    /\ skipw' = SkipAfter(c, ins, at)
    /\ CASE op = "increment_value_op" -> increment_value_op(at, via)
         [] op = "decrement_value_op" -> decrement_value_op(at, via)
         [] op = "increment_ptr_op"   -> increment_ptr_op(at, via)
         [] op = "decrement_ptr_op"   -> decrement_ptr_op(at, via)
         [] op = "print_op"           -> print_op(at, via)
         [] op = "read_op"            -> read_op(at, via)
         [] op = "loop_start_op"      -> loop_start_op(at, via)
         [] op = "loop_end_op"        -> loop_end_op(at, via)
         [] op = "monostate"          -> monostate(at, via)

\* mutant: the character is appended before the map is consulted
next_op_instruction_always(char_op, via) ==
    IF ~via THEN Append(instruction, char_op) ELSE instruction

\* mutant: without the test of via_loop, a replayed character is appended too
next_op_instruction_replayed(char_op, via) ==
    IF char_op \in DOMAIN bf_op_map
    THEN Append(instruction, char_op) ELSE instruction

\* next_op: a mapped character is appended unless it is replayed
next_op_instruction(char_op, via) ==
    IF char_op \in DOMAIN bf_op_map /\ ~via
    THEN Append(instruction, char_op) ELSE instruction

\* mutant: the increment stands outside the test of the map lookup
next_op_ptr_anychar(char_op, via) ==
    IF ~via THEN instruction_ptr_current + 1 ELSE instruction_ptr_current

next_op_ptr(char_op, via) ==
    IF char_op \in DOMAIN bf_op_map /\ ~via
    THEN instruction_ptr_current + 1 ELSE instruction_ptr_current

\* the call run_vm(status, c) of a caller (run_bf, lines 266 and 283)
Live(c) ==
    /\ lastfed' = c
    /\ lastop' = next_op_result(c)
    /\ instruction' = next_op_instruction(c, FALSE)
    /\ run_vm(c, instruction', next_op_ptr(c, FALSE), FALSE)
    /\ UNCHANGED keys

\* a caller hands one character to run_vm
Feed(c) ==
    /\ pc = "idle"
    /\ Live(c)
    /\ UNCHANGED ref
    /\ UNCHANGED sess

\* the inner while of loop_end_op runs one recorded instruction (lines 212-215)
ReplayOp ==
    /\ pc = "replay"
    /\ instruction_ptr_current < Top(frames)
    /\ instruction' = next_op_instruction(InsAt(instruction_ptr_current), TRUE)
    /\ run_vm(InsAt(instruction_ptr_current), instruction',
              next_op_ptr(InsAt(instruction_ptr_current), TRUE), TRUE)
    /\ UNCHANGED <<lastfed, lastop, keys>>
    /\ UNCHANGED ref
    /\ UNCHANGED sess

\* mutant: `if` for the outer `while`: one replay pass, then pop and return
PassEnd_once ==
    /\ pc = "replay"
    /\ instruction_ptr_current >= Top(frames)
    /\ \E s \in PopChoices :
          /\ instruction_loop_ptr' = s
          /\ ub' = (ub \/ instruction_loop_ptr = <<>>)
          /\ frames' = Pop(frames)
          /\ IF Len(frames) > 1
             THEN /\ instruction_ptr_current' = Top(frames) + 1
                  /\ pc' = AfterStackOp("replay")
             ELSE /\ instruction_ptr_current' = Top(frames)
                  /\ pc' = AfterStackOp("idle")
          /\ UNCHANGED <<tape, tape_ptr, jump_loop, out, inp>>
    /\ UNCHANGED <<instruction, lastfed, lastop, skipw, keys>>
    /\ UNCHANGED ref
    /\ UNCHANGED sess

\* the inner while is over: restore the pointer (217), test the cell (205),
\* start the next pass or pop (221) and return
PassEnd ==
    /\ pc = "replay"
    /\ instruction_ptr_current >= Top(frames)
    /\ IF Cell(tape, tape_ptr) # 0
       THEN StartPass(Top(frames), frames)
       ELSE \E s \in PopChoices :
              /\ tape' = Touch(tape, tape_ptr)
              /\ instruction_loop_ptr' = s
              /\ ub' = (ub \/ instruction_loop_ptr = <<>>)
              /\ frames' = Pop(frames)
              /\ IF Len(frames) > 1
                 THEN /\ instruction_ptr_current' = Top(frames) + 1
                      /\ pc' = AfterStackOp("replay")
                 ELSE /\ instruction_ptr_current' = Top(frames)
                      /\ pc' = AfterStackOp("idle")
              /\ UNCHANGED <<tape_ptr, jump_loop, out, inp>>
    /\ UNCHANGED <<instruction, lastfed, lastop, skipw, keys>>
    /\ UNCHANGED ref
    /\ UNCHANGED sess

----------------------------------------------------------------------------
(* A fresh brainfuck_vm_status, fed any characters *)

Init ==
    /\ tape = <<>>
    /\ tape_ptr = 0
    /\ instruction = <<>>
    /\ instruction_ptr_current = -1
    /\ instruction_loop_ptr = <<>>
    /\ jump_loop = 0
    /\ out = <<>>
    /\ inp = <<>>
    /\ keys = InputVals
    /\ pc = "idle"
    /\ frames = <<>>
    /\ ub = FALSE
    /\ lastfed = ""
    /\ lastop = ""
    /\ skipw = None
    /\ rprog = <<>>
    /\ rtape = <<>>
    /\ rptr = 0
    /\ rout = <<>>
    /\ rip = 0
    /\ line = <<>>
    /\ session = "interactive"
    /\ entered = <<>>

\* n times '+'
Plus(n) == [i \in 1 .. n |-> "+"]

\* longer programs that are fed as well: doubly nested loops ...
PlainChars == {"+", "-", ">", "<"}
Seg  == {<<>>} \cup {<<c>> : c \in PlainChars}
Seg2 == Seg \cup {<<c, d>> : c \in PlainChars, d \in PlainChars}
Pre  == {<<"+">>, <<"+", "+">>, <<"-">>}
Nested ==
    {p \o <<"[">> \o a \o <<"[">> \o b \o <<"]">> \o c \o <<"]">> :
        p \in Pre, a \in Seg, b \in Seg, c \in Seg2}
\* ... the move loop after n increments, 256 increments, `++>+++<` ...
Move == {Plus(n) \o <<"[", "-", ">", "+", "<", "]">> : n \in 1 .. CellMod - 1}
\* ... and a loop that runs twice over two nested loops it skips
DeepSkip == <<"+", "+", "[", ">", "[", "[", "]", "]", "<", "-", "]">>
Examples ==
    Nested \cup Move \cup
    {Plus(CellMod), <<"+", "+", ">", "+", "+", "+", "<">>, DeepSkip}

Prefixes(P) == UNION {{SubSeq(p, 1, k) : k \in 0 .. Len(p)} : p \in P}
ExamplePrefixes == Prefixes(Examples)

FeedAny ==
    \E c \in Chars :
        /\ \/ c \notin OpChars
           \/ Len(instruction) < MaxLen
           \/ Append(instruction, c) \in ExamplePrefixes
        /\ Feed(c)

Next == FeedAny \/ ReplayOp \/ PassEnd

Spec == Init /\ [][Next]_vars


----------------------------------------------------------------------------
(* The standard semantics, as a reference machine run next to the VM:      *)
(* bracket-matched jumps over the program text, 8-bit wrapping cells, a    *)
(* tape unbounded in both directions.  Each character is given to the      *)
(* reference machine first, which runs as far as the text allows, and then *)
(* to run_vm.                                                              *)

\* programs the two machines are compared on
Printing ==
    {<<"+", "+", "[", ".", "-", "]">>, <<"+", "[", ".", "[", "-", "]", "]">>,
     <<"-", "[", "+", "]", ".">>, <<"[", ".", "]", "+", ".">>}
StdPrograms == Nested \cup Printing
StdPrefixes == Prefixes(StdPrograms)

RefCell == Cell(rtape, rptr)
RefOp == rprog[rip + 1]

\* the reference machine has run all the text it has, or waits at a
\* loop-start for the loop-end it must jump to
RefBlocked ==
    IF rip >= Len(rprog) THEN TRUE
    ELSE IF RefOp = "[" THEN RefCell = 0 /\ MatchFwd(rprog, rip) = -1
    ELSE RefOp = ","

FeedStd ==
    \E c \in OpChars :
        /\ pc = "idle"
        /\ Append(instruction, c) \in StdPrefixes
        /\ rprog' = Append(rprog, c)
        /\ pc' = "std"
        /\ UNCHANGED <<rtape, rptr, rout, rip>>
        /\ UNCHANGED <<status, io, frames, ub, ghost>>
        /\ UNCHANGED sess

RefStep ==
    /\ pc = "std"
    /\ ~RefBlocked
    /\ CASE RefOp = "+" ->
              /\ rtape' = Put(rtape, rptr, (RefCell + 1) % 256)
              /\ rip' = rip + 1
              /\ UNCHANGED <<rptr, rout>>
         [] RefOp = "-" ->
              /\ rtape' = Put(rtape, rptr, (RefCell + 255) % 256)
              /\ rip' = rip + 1
              /\ UNCHANGED <<rptr, rout>>
         [] RefOp = ">" ->
              /\ rptr < MaxPtr
              /\ rptr' = rptr + 1
              /\ rip' = rip + 1
              /\ UNCHANGED <<rtape, rout>>
         [] RefOp = "<" ->
              /\ rptr > -MaxPtr
              /\ rptr' = rptr - 1
              /\ rip' = rip + 1
              /\ UNCHANGED <<rtape, rout>>
         [] RefOp = "." ->
              /\ Len(rout) < MaxOut
              /\ rout' = Append(rout, RefCell)
              /\ rip' = rip + 1
              /\ UNCHANGED <<rtape, rptr>>
         [] RefOp = "[" ->
              /\ rip' = IF RefCell = 0 THEN MatchFwd(rprog, rip) + 1 ELSE rip + 1
              /\ UNCHANGED <<rtape, rptr, rout>>
         [] RefOp = "]" ->
              /\ rip' = IF RefCell # 0 THEN MatchBack(rprog, rip) + 1 ELSE rip + 1
              /\ UNCHANGED <<rtape, rptr, rout>>
    /\ UNCHANGED rprog
    /\ UNCHANGED <<status, io, ctl, ghost>>
    /\ UNCHANGED sess

\* the character goes to run_vm
StdLive ==
    /\ pc = "std"
    /\ RefBlocked
    /\ Live(Top(rprog))
    /\ UNCHANGED ref
    /\ UNCHANGED sess

NextStd == FeedStd \/ RefStep \/ StdLive \/ ReplayOp \/ PassEnd

SpecStd == Init /\ [][NextStd]_vars

\* run_vm runs to completion: nothing suspends the replay
SpecStdFair == SpecStd /\ WF_vars(ReplayOp) /\ WF_vars(PassEnd)


----------------------------------------------------------------------------
(* A fresh VM whose input collaborator can supply any byte, once *)

\* longest instruction history fed in this specification
MaxIOLen == 3

IOChars == {",", ".", "+", ">"}

InitIO ==
    /\ tape = <<>>
    /\ tape_ptr = 0
    /\ instruction = <<>>
    /\ instruction_ptr_current = -1
    /\ instruction_loop_ptr = <<>>
    /\ jump_loop = 0
    /\ out = <<>>
    /\ inp = <<>>
    /\ keys = 0 .. CellMod - 1
    /\ pc = "idle"
    /\ frames = <<>>
    /\ ub = FALSE
    /\ lastfed = ""
    /\ lastop = ""
    /\ skipw = None
    /\ rprog = <<>>
    /\ rtape = <<>>
    /\ rptr = 0
    /\ rout = <<>>
    /\ rip = 0
    /\ line = <<>>
    /\ session = "interactive"
    /\ entered = <<>>

FeedIO ==
    \E c \in IOChars :
        /\ Len(instruction) < MaxIOLen
        /\ c = "," => inp = <<>>
        /\ Feed(c)

NextIO == FeedIO

SpecIO == InitIO /\ [][NextIO]_vars

----------------------------------------------------------------------------
(* run_bf and main: the lines entered at the prompt, the three commands and *)
(* the two runs.  `status` is a local of run_bf: every call of run_bf       *)
(* constructs a new one.                                                    *)

\* longest instruction history of a session at which a further line is taken
MaxSessLen == 3

\* brainfuck_vm_status's default member initialisers
FreshStatus ==
    /\ tape' = <<>>
    /\ tape_ptr' = 0
    /\ instruction' = <<>>
    /\ instruction_ptr_current' = -1
    /\ instruction_loop_ptr' = <<>>
    /\ jump_loop' = 0

IsFresh ==
    /\ tape = <<>>
    /\ tape_ptr = 0
    /\ instruction = <<>>
    /\ instruction_ptr_current = -1
    /\ instruction_loop_ptr = <<>>
    /\ jump_loop = 0

\* the lines run_bf compares the entered line with
ResetLine   == <<"r", "e", "s", "e", "t">>
ExampleLine == <<"e", "x", "a", "m", "p", "l", "e">>
PekoLine    == <<"p", "e", "k", "o">>
Commands    == {ResetLine, ExampleLine, PekoLine}

\* the lines getline returns here: the commands, program text, and lines
\* that contain a command without being one
Lines ==
    Commands \cup
    {<<>>, <<"+">>, <<"+", "[">>, <<"-", "]">>, <<">", ".">>, <<"[", "x">>,
     <<"r", "e", "s", "e", "t", "+">>, <<"+", "p", "e", "k", "o">>}

\* the text main passes for `example`, up to its first output
ExampleText ==
    <<"+", "+", "+", "+", "+", " ", "+", "+", "+", "[", "-", " ", ">",
      "+", "+", "+", "+", " ", "+", "+", "+", "+", "<", " ", "]", ">",
      "+", "+", "+", " ", "+", "+", "+", "+", "+", " ", "+", "+", "+",
      "+", "+", " ", "+", "+", "+", ".">>

\* the text main passes for `peko` (peko.h): some program text
PekoTexts == {<<"+", "+", ".">>, <<"-", "[", "+", ">">>, <<">", "+", "[">>}

\* mutant: the status outlives the run_bf call, as a global would
NewSession_shared ==
    /\ session' = "interactive"
    /\ line' = <<>>
    /\ UNCHANGED <<status, io, ctl, ghost>>

\* what the run_bf call that has returned hands over to: main calls
\* run_bf(nullptr, false) again, with a status of its own
NewSession ==
    /\ FreshStatus
    /\ session' = "interactive"
    /\ line' = <<>>
    /\ skipw' = None
    /\ UNCHANGED <<io, ctl, lastfed, lastop>>

\* getline returns a line to the interactive run_bf (lines 271-280); a
\* command makes run_bf return, and main starts the run or the next session
GetLine ==
    /\ pc = "idle"
    /\ session = "interactive"
    /\ line = <<>>
    /\ \E l \in Lines :
          /\ entered' = l
          /\ IF l = ResetLine THEN NewSession
             ELSE IF l = ExampleLine THEN
                  /\ FreshStatus
                  /\ session' = "example"
                  /\ line' = ExampleText
                  /\ skipw' = None
                  /\ UNCHANGED <<io, ctl, lastfed, lastop>>
             ELSE IF l = PekoLine THEN
                  /\ FreshStatus
                  /\ session' = "peko"
                  /\ line' \in PekoTexts
                  /\ skipw' = None
                  /\ UNCHANGED <<io, ctl, lastfed, lastop>>
             ELSE /\ Len(instruction) < MaxSessLen
                  /\ line' = l
                  /\ UNCHANGED <<status, io, ctl, ghost, session>>
    /\ UNCHANGED ref

\* the for loops of run_bf: run_vm on the next character of the line or run
FeedLine ==
    /\ pc = "idle"
    /\ line # <<>>
    /\ Live(Head(line))
    /\ line' = Tail(line)
    /\ UNCHANGED <<session, entered>>
    /\ UNCHANGED ref

\* run_bf(run, ...) has interpreted its text and returns (lines 267-268)
RunReturn ==
    /\ pc = "idle"
    /\ session # "interactive"
    /\ line = <<>>
    /\ NewSession
    /\ UNCHANGED entered
    /\ UNCHANGED ref

NextSession == GetLine \/ FeedLine \/ RunReturn \/ ReplayOp \/ PassEnd

SpecSession == Init /\ [][NextSession]_vars

----------------------------------------------------------------------------
(* Claims *)

\* brackets of ins: every prefix has at least as many '[' as ']', and the
\* whole has as many
Count(ins, k, c) == Cardinality({i \in 1 .. k : ins[i] = c})
Balanced(ins) ==
    /\ \A k \in 1 .. Len(ins) : Count(ins, k, "[") >= Count(ins, k, "]")
    /\ Count(ins, Len(ins), "[") = Count(ins, Len(ins), "]")

Cells == -MaxPtr .. MaxPtr

\* the whole of a bracket-balanced program has been fed, the standard
\* semantics have run it to its end and the last run_vm call has returned
StdDone ==
    /\ pc = "idle"
    /\ instruction = rprog
    /\ Balanced(rprog)
    /\ rip = Len(rprog)

\* the exploration stops here: the next replayed instruction would leave
\* the part of the tape, output or input that is followed
AtBound ==
    /\ pc = "replay"
    /\ instruction_ptr_current < Top(frames)
    /\ jump_loop = 0
    /\ LET c == InsAt(instruction_ptr_current) IN
          \/ c = ">" /\ tape_ptr >= MaxPtr
          \/ c = "<" /\ tape_ptr <= -MaxPtr
          \/ c = "." /\ Len(out) >= MaxOut
          \/ c = "," /\ Len(inp) >= MaxIn

\* C1: after the last character of a bracket-balanced program on which the
\* standard semantics terminate has been fed to a fresh VM, the cell values,
\* the tape pointer and the emitted outputs are those of the standard semantics.
C1_StdEquivalence ==
    StdDone =>
        /\ \A i \in Cells : Cell(tape, i) = Cell(rtape, i)
        /\ tape_ptr = rptr
        /\ out = rout

\* C2: a replay started by the feed of a bracket-balanced program on which
\* the standard semantics terminate eventually finishes: the feed returns.
C2_FeedReturns ==
    [](  (pc = "replay" /\ Balanced(rprog) /\ rip = Len(rprog))
       => <>(pc # "replay" \/ AtBound))


\* C3: once a loop-start has been processed with Skip Depth 0 and a zero
\* cell, every step up to and including the processing of its
\* bracket-matching loop-end leaves the cell values, the tape pointer, the
\* output, the consumed input and the Loop Start Stack as they were at that
\* loop-start, on live feed and during replay.
C3_SkippedLoopFrame ==
    [][skipw # None =>
          /\ \A i \in Cells : Cell(tape', i) = Cell(skipw.tape, i)
          /\ tape_ptr' = skipw.ptr
          /\ out' = skipw.out
          /\ inp' = skipw.inp
          /\ instruction_loop_ptr' = skipw.stack]_vars

\* a body instruction of a skipped loop has just been replayed
C3_Witness ==
    /\ skipw # None
    /\ pc = "replay"
    /\ instruction_ptr_current - 1 > skipw.start
    /\ InsAt(instruction_ptr_current - 1) \in {"+", "-", ">", "<"}


MoveLoop == <<"[", "-", ">", "+", "<", "]">>

\* C4: for every n in 1..255, once n times '+' followed by `[->+<]` has
\* been fed to a fresh VM, cell 0 is 0, cell 1 is n and the tape pointer is 0.
C4_MoveLoop ==
    LET n == Len(instruction) - Len(MoveLoop) IN
    (/\ pc = "idle"
     /\ n \in 1 .. CellMod - 1
     /\ SubSeq(instruction, n + 1, n + Len(MoveLoop)) = MoveLoop
     /\ \A i \in 1 .. n : instruction[i] = "+")
        => /\ Cell(tape, 0) = 0
           /\ Cell(tape, 1) = n
           /\ tape_ptr = 0

\* the feed of the loop-end of 255 * '+' followed by `[->+<]` has returned
C4_Witness ==
    /\ pc = "idle"
    /\ instruction = Plus(CellMod - 1) \o MoveLoop
    /\ Cell(tape, 1) = CellMod - 1

\* the loop closed by the live loop-end at index e has a body of output and
\* pointer moves only, which ends on the cell it starts on
InertBody(m, e) ==
    /\ \A i \in m + 1 .. e - 1 : InsAt(i) \in {".", ">", "<"}
    /\ Cardinality({i \in m + 1 .. e - 1 : InsAt(i) = ">"})
         = Cardinality({i \in m + 1 .. e - 1 : InsAt(i) = "<"})

\* the loop-end just fed found Skip Depth 0 and a nonzero cell and closes a
\* loop with such a body (whose loop-start then found the same)
InertLoopRunning ==
    /\ pc = "replay"
    /\ frames[1] = Len(instruction) - 1
    /\ MatchBack(instruction, frames[1]) >= 0
    /\ InertBody(MatchBack(instruction, frames[1]), frames[1])

MaxFlat == 7

\* the tape pointer after the first k instructions of a bracket-free history
PtrAfter(k) == Count(instruction, k, ">") - Count(instruction, k, "<")

\* the value of cell j after a bracket-free history: the last input read
\* into it (0 if none) plus the increments minus the decrements made on it
\* since
FlatCell(j) ==
    LET n     == Len(instruction)
        reads == {i \in 1 .. n : instruction[i] = "," /\ PtrAfter(i - 1) = j}
        last  == IF reads = {} THEN 0
                 ELSE CHOOSE i \in reads : \A k \in reads : k <= i
        base  == IF reads = {} THEN 0 ELSE inp[Count(instruction, last, ",")]
        plus  == Cardinality({i \in last + 1 .. n :
                                 instruction[i] = "+" /\ PtrAfter(i - 1) = j})
        minus == Cardinality({i \in last + 1 .. n :
                                 instruction[i] = "-" /\ PtrAfter(i - 1) = j})
    IN (base + plus + (CellMod - 1) * minus) % CellMod

NoLoops == \A i \in 1 .. Len(instruction) : instruction[i] \notin {"[", "]"}

\* C6: after any sequence of non-loop operations fed to a fresh VM the tape
\* pointer is #'>' - #'<' and every cell holds what its own '+', '-' and
\* input operations make of it, in order.
C6_FlatSequence ==
    (Len(instruction) <= MaxFlat /\ NoLoops) =>
        /\ tape_ptr = PtrAfter(Len(instruction))
        /\ \A j \in Cells : Cell(tape, j) = FlatCell(j)

\* `++>+++<` has been fed
C6_Witness ==
    /\ instruction = <<"+", "+", ">", "+", "+", "+", "<">>
    /\ Cell(tape, 0) = 2
    /\ Cell(tape, 1) = 3
    /\ tape_ptr = 0

\* C7: the feed of a character that is none of + - > < . , [ ] leaves the
\* cells, the tape pointer, the instruction history, the instruction
\* pointer, the Loop Start Stack and the Skip Depth as they are, emits no
\* output and consumes no input.
C7_InvalidCharNoEffect ==
    [][lastfed' \notin OpChars => UNCHANGED <<status, out, inp>>]_vars

\* an invalid character was fed between a committed loop-start and its end
C7_Witness ==
    /\ lastfed \in InvalidChars
    /\ instruction_loop_ptr # <<>>
    /\ instruction[Len(instruction)] = "["

\* a live feed of character c, which the history takes up
LiveStep(c) == lastfed' = c /\ Len(instruction') = Len(instruction) + 1

\* C8: cells hold 8-bit values and wrap: an increment of 255 gives 0, a
\* decrement of 0 gives 255 and a loop-start on it commits, 256 increments
\* give the value the cell started with, and a cell never written reads 0.
C8_CellsWrap ==
    /\ [](\A i \in DOMAIN tape : tape[i] \in 0 .. 255)
    /\ []((Len(instruction) = 256 /\ \A i \in 1 .. 256 : instruction[i] = "+")
            => Cell(tape, 0) = 0)
    /\ [](instruction = <<"-", "[">> =>
              instruction_loop_ptr = <<1>> /\ jump_loop = 0)
    /\ [][/\ (LiveStep("+") /\ jump_loop = 0) =>
               Cell(tape', tape_ptr) =
                  IF Cell(tape, tape_ptr) = 255 THEN 0 ELSE Cell(tape, tape_ptr) + 1
          /\ (LiveStep("-") /\ jump_loop = 0) =>
               Cell(tape', tape_ptr) =
                  IF Cell(tape, tape_ptr) = 0 THEN 255 ELSE Cell(tape, tape_ptr) - 1
          /\ (LiveStep(".") /\ jump_loop = 0 /\ tape_ptr \notin DOMAIN tape) =>
               out' = Append(out, 0)]_vars

\* the 256th increment in a row has been fed
C8_Witness ==
    /\ Len(instruction) = 256
    /\ \A i \in 1 .. 256 : instruction[i] = "+"
    /\ pc = "idle"
    /\ tape[0] = 0

\* C9: `,` directly followed by `.` consumes one input value v, emits one
\* output value equal to v and leaves v in the current cell, for every byte v.
C9_ReadPrint ==
    LET n == Len(instruction) IN
    /\ Len(inp) = Count(instruction, n, ",")
    /\ Len(out) = Count(instruction, n, ".")
    /\ (n >= 2 /\ instruction[n - 1] = "," /\ instruction[n] = ".") =>
          /\ out[Len(out)] = inp[Len(inp)]
          /\ Cell(tape, tape_ptr) = inp[Len(inp)]

\* `,.` has been fed with input 'A'
C9_Witness ==
    /\ instruction = <<",", ".">>
    /\ inp = <<65>>
    /\ out = <<65>>

\* the operation each character denotes
Denotes(c) ==
    CASE c = "+" -> "increment_value_op"
      [] c = "-" -> "decrement_value_op"
      [] c = ">" -> "increment_ptr_op"
      [] c = "<" -> "decrement_ptr_op"
      [] c = "." -> "print_op"
      [] c = "," -> "read_op"
      [] c = "[" -> "loop_start_op"
      [] c = "]" -> "loop_end_op"
      [] OTHER   -> "monostate"

C11_ResetStartsFresh ==
    /\ []((session = "interactive" /\ entered \in Commands) =>
             (IsFresh /\ pc = "idle" /\ line = <<>>))
    /\ [][(pc = "idle" /\ session = "interactive" /\ line = <<>>
             /\ entered' \notin Commands) => UNCHANGED status]_vars

\* the run of the example has printed its 'P' and returned, and the prompt
\* is back
C11_Witness ==
    /\ session = "interactive"
    /\ entered = ExampleLine
    /\ out # <<>>
    /\ out[Len(out)] = 80
    /\ IsFresh

\* the index in the history of the instruction a step from this state
\* dispatches: the one it appends, or the one it replays
StepPos ==
    IF pc = "idle" THEN Len(instruction) ELSE instruction_ptr_current

\* this step is run_vm's dispatch of a loop-end, at index StepPos of the
\* history, reached on live feed or in a replay
LoopEndStep ==
    \/ /\ pc = "idle"
       /\ Len(instruction') = Len(instruction) + 1
       /\ lastfed' = "]"
    \/ /\ pc = "replay"
       /\ instruction_ptr_current < Top(frames)
       /\ InsAt(instruction_ptr_current) = "]"
       /\ instruction_ptr_current' # instruction_ptr_current

\* C12: a loop-end processed with Skip Depth 0 and the current cell equal to
\* 0, while the start of its loop is the top of the Loop Start Stack, pops
\* that entry: the depth of the stack decreases by exactly one.
C12_PopOnZero ==
    [][(/\ LoopEndStep
        /\ jump_loop = 0
        /\ Cell(tape, tape_ptr) = 0
        /\ instruction_loop_ptr # <<>>
        /\ Top(instruction_loop_ptr) = MatchBack(instruction', StepPos))
          => instruction_loop_ptr' = Pop(instruction_loop_ptr)]_vars

\* a replay pass of the loop-end Top(frames') starts with this step: the
\* loop-end was dispatched with Skip Depth 0 and a nonzero cell, or its
\* previous pass is over and the cell is nonzero again
PassStarts ==
    /\ pc' = "replay"
    /\ \/ Len(frames') = Len(frames) + 1
       \/ /\ pc = "replay"
          /\ frames' = frames
          /\ instruction_ptr_current >= Top(frames)

\* C13: every replay pass of a loop-end at position e that has a matching
\* loop-start m starts at m + 1, m being the top of the Loop Start Stack,
\* goes through the positions one by one (a nested loop-end hands back at
\* its own position) and ends before e.
C13_ReplayRange ==
    [][/\ (PassStarts /\ MatchBack(instruction', Top(frames')) >= 0) =>
             /\ Top(instruction_loop_ptr') = MatchBack(instruction', Top(frames'))
             /\ instruction_ptr_current' = MatchBack(instruction', Top(frames')) + 1
       /\ (pc = "replay" /\ pc' = "replay" /\ frames' = frames
             /\ instruction_ptr_current < Top(frames)) =>
             instruction_ptr_current' = instruction_ptr_current + 1
       /\ (pc = "replay" /\ pc' = "replay" /\ Len(frames') < Len(frames)) =>
             instruction_ptr_current' = Top(frames) + 1
       /\ pc' = "replay" => instruction_ptr_current' <= Top(frames')]_vars

\* no loop-end of ins is without a loop-start
NoStrayEnd(ins) ==
    \A k \in 1 .. Len(ins) : Count(ins, k, "[") >= Count(ins, k, "]")

\* the positions of the loop-starts of ins whose loop-end is not in ins yet
OpenStarts(ins) ==
    {i \in 0 .. Len(ins) - 1 : ins[i + 1] = "[" /\ MatchFwd(ins, i) = -1}

\* C14: when a feed has returned, the Loop Start Stack holds loop-starts
\* whose loop-end is still to come, one entry each, and every such
\* loop-start is either on the stack or counted by Skip Depth; so after a
\* bracket-balanced program the stack is empty and Skip Depth is 0.
C14_StackDepth ==
    (pc = "idle" /\ NoStrayEnd(instruction)) =>
        /\ \A k \in 1 .. Len(instruction_loop_ptr) :
              instruction_loop_ptr[k] \in OpenStarts(instruction)
        /\ \A j, k \in 1 .. Len(instruction_loop_ptr) :
              j < k => instruction_loop_ptr[j] < instruction_loop_ptr[k]
        /\ Len(instruction_loop_ptr) + jump_loop
              = Cardinality(OpenStarts(instruction))
        /\ Balanced(instruction) =>
              (instruction_loop_ptr = <<>> /\ jump_loop = 0)

\* this step is run_vm's dispatch of a loop-start, reached on live feed or
\* in a replay
LoopStartStep ==
    \/ /\ pc = "idle"
       /\ Len(instruction') = Len(instruction) + 1
       /\ lastfed' = "["
    \/ /\ pc = "replay"
       /\ instruction_ptr_current < Top(frames)
       /\ InsAt(instruction_ptr_current) = "["
       /\ instruction_ptr_current' # instruction_ptr_current

\* the position of the history that was dispatched last
LastPos ==
    IF pc = "replay" THEN instruction_ptr_current - 1 ELSE Len(instruction) - 1

\* the loop-starts at positions s+1 .. p that no loop-end up to p closes
OpenSince(s, p) ==
    Cardinality({i \in s + 1 .. p : InsAt(i) = "["})
      - Cardinality({i \in s + 1 .. p : InsAt(i) = "]"})

\* C15: Skip Depth is never negative; from a loop-start processed with Skip
\* Depth 0 and cell 0 up to the processing of its bracket-matching loop-end
\* it is at least 1 and equals 1 plus the loop-starts seen since that are
\* still unclosed, and it is 0 outside; while it is above 0 a loop-start
\* only adds one to it and a loop-end only takes one from it, without push,
\* pop or replay.
C15_SkipDepth ==
    /\ [](jump_loop >= 0)
    /\ []((skipw # None /\ pc \in {"idle", "replay"}) =>
             /\ LastPos >= skipw.start
             /\ jump_loop >= 1
             /\ jump_loop = 1 + OpenSince(skipw.start, LastPos))
    /\ []((skipw = None /\ pc \in {"idle", "replay"}) => jump_loop = 0)
    /\ [][/\ (LoopStartStep /\ jump_loop > 0) =>
                /\ jump_loop' = jump_loop + 1
                /\ UNCHANGED <<instruction_loop_ptr, frames>>
          /\ (LoopEndStep /\ jump_loop > 0) =>
                /\ jump_loop' = jump_loop - 1
                /\ UNCHANGED <<instruction_loop_ptr, frames>>]_vars

\* the second pass over the body of `++[>[[]]<-]` is in the inner one of the
\* two loops it skips
C15_Witness ==
    /\ pc = "replay"
    /\ jump_loop = 2
    /\ skipw # None
    /\ skipw.start = 4
    /\ LastPos = 5

\* C16: when the feed of a valid character has returned, the instruction
\* pointer is the index of the last element of the history; during a replay
\* it stays within the history, at or before the loop-end being processed,
\* and the outermost loop-end is the last element.
C16_PointerAtTail ==
    /\ (pc = "idle" /\ lastfed \in OpChars) =>
          instruction_ptr_current = Len(instruction) - 1
    /\ pc = "replay" =>
          /\ instruction_ptr_current \in 0 .. Top(frames)
          /\ frames[1] = Len(instruction) - 1
          /\ \A k \in 1 .. Len(frames) - 1 : frames[k + 1] < frames[k]

\* the feed of the last loop-end of `++[>[[]]<-]` has returned after a
\* replay of the body
C16_Witness ==
    /\ pc = "idle"
    /\ instruction = DeepSkip
    /\ lastfed = "]"
    /\ Cell(tape, 0) = 0
    /\ instruction_ptr_current = 10

\* C17: the feed of a valid character appends exactly that character to the
\* history, with Skip Depth 0 or above, and changes no earlier element; the
\* feed of any other character and every step of a replay leave the history
\* as it is.
C17_HistoryAppendOnly ==
    [][/\ pc = "idle" =>
             instruction' = IF lastfed' \in OpChars
                            THEN Append(instruction, lastfed')
                            ELSE instruction
       /\ pc # "idle" => instruction' = instruction]_vars

\* `++[>[[]]<-]`, whose `[[]]` was fed while skipping, is in its replay and
\* has gone through the skipped loops again
C17_Witness ==
    /\ pc = "replay"
    /\ instruction = DeepSkip
    /\ jump_loop = 0
    /\ instruction_ptr_current = 9

\* C18: whatever characters are fed, no loop-end calls top() or pop() on an
\* empty Loop Start Stack: every feed is a defined transition.
C18_NoEmptyStackAccess ==
    /\ ~ub
    /\ pc # "undefined"

\* the character whose operation the step from this state executes: the
\* one fed, the one replayed, or the loop-end whose replay loop tests the
\* cell again
StepChar ==
    IF pc = "idle" THEN lastfed'
    ELSE IF instruction_ptr_current < Top(frames)
         THEN InsAt(instruction_ptr_current)
         ELSE "]"

\* what a step may change of the tape pointer and the cell values
FrameOfStep ==
    /\ tape_ptr' # tape_ptr =>
          (StepChar \in {">", "<"} /\ jump_loop = 0)
    /\ (\E i \in Cells : Cell(tape', i) # Cell(tape, i)) =>
          /\ StepChar \in {"+", "-", ","}
          /\ jump_loop = 0
          /\ \A i \in Cells \ {tape_ptr} : Cell(tape', i) = Cell(tape, i)
    /\ StepChar \in {".", "[", "]"} =>
          /\ tape_ptr' = tape_ptr
          /\ \A i \in Cells : Cell(tape', i) = Cell(tape, i)

\* C19: the tape pointer changes only in a step of '>' or '<' executed with
\* Skip Depth 0; a cell value changes only in a step of '+', '-' or ','
\* executed with Skip Depth 0, and then only the current cell's; the steps
\* of '.', '[' and ']', condition tests included, change no cell value and
\* not the tape pointer.
C19_FrameConditions ==
    [][(pc \in {"idle", "replay"}) => FrameOfStep]_vars

\* `>[,`: the input operation was fed while the loop on cell 1 is skipped
C19_Witness ==
    /\ instruction = <<">", "[", ",">>
    /\ lastfed = ","
    /\ jump_loop = 1
    /\ tape_ptr = 1
    /\ inp = <<>>
    /\ \A i \in Cells : Cell(tape, i) = 0

====
